---- MODULE Spec2Model ----
(***************************************************************************)
(* Model of static/js/main.js: the modal controller (showModal, hideModal, *)
(* the window.onclick and Escape listeners), the alert notifier            *)
(* (showAlert), the fetch wrapper (makeRequest), the form validator        *)
(* (validateForm, resetFormValidation), formatRelativeTime and debounce.   *)
(* Each component has its own specification over the shared variables; a   *)
(* component's actions leave the other components' variables unchanged.    *)
(***************************************************************************)
EXTENDS Integers, Sequences, FiniteSets

VARIABLES
    display,      \* modal controller: element -> inline style.display
    overflow,     \* modal controller: document.body.style.overflow
    modalEvent,   \* history: the last modal operation and the display before it
    alertDom,     \* notifier: the .alert elements attached to the document
    alertLog,     \* notifier: every alert element created, with its history
    alertTimers,  \* notifier: alert elements whose 4000ms timeout is pending
    alertEvent,   \* history: the last notifier operation and its arguments
    jsErrors,     \* uncaught exceptions thrown by timer callbacks
    now,          \* the clock, in milliseconds
    requests,     \* fetch wrapper: per call, its position and local variables
    fields,       \* validator: the fields of the form
    formEvent,    \* history: the last validator operation, its result, the fields before it
    fmtIn,        \* formatter: the timestamp handed to formatRelativeTime
    fmtOut,       \* formatter: what formatRelativeTime returned
    dWait,        \* debounce: the wait argument
    dTimeout,     \* debounce: the closure variable timeout (0: undefined)
    dTimers,      \* debounce: pending timers, each with its captured args
    dCalls,       \* history: the calls to the debounced function
    dRuns         \* history: the invocations of func

modalVars == <<display, overflow, modalEvent>>
notifierVars == <<alertDom, alertLog, alertTimers, alertEvent, jsErrors>>
requestVars == <<requests>>
formVars == <<fields, formEvent>>
fmtVars == <<fmtIn, fmtOut>>
debounceVars == <<dWait, dTimeout, dTimers, dCalls, dRuns>>
vars == <<modalVars, notifierVars, now, requestVars, formVars, fmtVars, debounceVars>>

(***************************************************************************)
(* Modal controller                                                        *)
(***************************************************************************)

\* The page's modals are the elements 1..NumModals, each with an id and
\* class "modal"; NumModals + 1 is an id no element has; 0 is some other
\* element of the page, without the class.
NumModals == 3

Modals == 1..NumModals

ModalIds == 1..(NumModals + 1)

ClickTargets == 0..NumModals

getElementById(id) == IF id \in Modals THEN {id} ELSE {}

\* event.target.classList.contains('modal')
HasModalClass(target) == target \in Modals

ModalFrame ==
    UNCHANGED <<notifierVars, now, requestVars, formVars, fmtVars, debounceVars>>

\* No modal has an inline display yet (the stylesheet hides it), body has
\* no inline overflow.
ModalInit ==
    /\ display = [e \in Modals |-> ""]
    /\ overflow = ""
    /\ modalEvent = [op |-> "init", id |-> 0, before |-> [e \in Modals |-> ""]]

showModal(modalId) ==
    /\ display' = [e \in Modals |->
                     IF e \in getElementById(modalId) THEN "block" ELSE display[e]]
    /\ overflow' = IF getElementById(modalId) # {} THEN "hidden" ELSE overflow
    /\ modalEvent' = [op |-> "show", id |-> modalId, before |-> display]
    /\ ModalFrame

hideModal(modalId) ==
    /\ display' = [e \in Modals |->
                     IF e \in getElementById(modalId) THEN "none" ELSE display[e]]
    /\ overflow' = IF getElementById(modalId) # {} THEN "auto" ELSE overflow
    /\ modalEvent' = [op |-> "hide", id |-> modalId, before |-> display]
    /\ ModalFrame

\* window.onclick: the pointer hits a modal's backdrop, which only a shown
\* modal offers, or some other element.
WindowClick(target) ==
    /\ target \in Modals => display[target] = "block"
    /\ display' = [e \in Modals |->
                     IF e = target /\ HasModalClass(target) THEN "none" ELSE display[e]]
    /\ overflow' = IF HasModalClass(target) THEN "auto" ELSE overflow
    /\ modalEvent' = [op |-> "click", id |-> target, before |-> display]
    /\ ModalFrame

\* document.querySelectorAll('.modal[style*="block"]')
OnlyFirstOpenModal(disp) ==
    LET open == {e \in Modals : disp[e] = "block"}
    IN  {e \in open : \A o \in open : e <= o}

OpenModals(disp) == {e \in Modals : disp[e] = "block"}

Keys == {"Escape", "Enter"}

KeyDown(key) ==
    /\ display' = [e \in Modals |->
                     IF key = "Escape" /\ e \in OpenModals(display)
                     THEN "none" ELSE display[e]]
    /\ overflow' = IF key = "Escape" THEN "auto" ELSE overflow
    /\ modalEvent' = [op |-> key, id |-> 0, before |-> display]
    /\ ModalFrame

ModalNext ==
    \/ \E id \in ModalIds : showModal(id)
    \/ \E id \in ModalIds : hideModal(id)
    \/ \E target \in ClickTargets : WindowClick(target)
    \/ \E key \in Keys : KeyDown(key)

(***************************************************************************)
(* Clock.  A timer is due once now has reached its deadline; the clock     *)
(* does not pass a due timer, but handlers queued at the same instant may  *)
(* run before it.                                                          *)
(***************************************************************************)

AlertTimeout == 4000

TickMs == AlertTimeout \div 4

MaxTicks == 6

MaxTime == MaxTicks * TickMs

(***************************************************************************)
(* Notifier                                                                *)
(***************************************************************************)

MaxAlerts == 2

Messages == {<<"saved">>, <<"bad input">>}

\* "undefined" is the omitted argument.
AlertTypes == {"undefined", "success", "error"}

DefaultType(type) == IF type = "undefined" THEN "success" ELSE type

AlertIds == 1..Len(alertLog)

AlertDeadline(a) == alertLog[a].createdAt + AlertTimeout

NotifierFrame == UNCHANGED <<modalVars, formVars, fmtVars, debounceVars>>

NotifierInit ==
    /\ alertDom = {}
    /\ alertLog = <<>>
    /\ alertTimers = {}
    /\ alertEvent = [op |-> "init", message |-> <<>>, type |-> "undefined"]
    /\ jsErrors = 0

\* document.querySelectorAll('.alert')
NoExistingAlerts(dom) == {}

ExistingAlerts(dom) == dom

\* The state showAlert(message, type) leaves; shared with makeRequest's catch.
ShowAlertEffect(message, type) ==
    LET existing == ExistingAlerts(alertDom)
        alertDiv == Len(alertLog) + 1
        evicted == [a \in AlertIds |->
                      IF a \in existing
                      THEN [alertLog[a] EXCEPT !.removedBy = "evict", !.removedAt = now]
                      ELSE alertLog[a]]
    IN  /\ alertDom' = (alertDom \ existing) \cup {alertDiv}
        /\ alertLog' = Append(evicted,
                              [message |-> message, type |-> DefaultType(type),
                               createdAt |-> now, removedBy |-> "none",
                               removedAt |-> 0, remover |-> 0, staleFiredAt |-> -1])
        /\ alertTimers' = alertTimers \cup {alertDiv}
        /\ alertEvent' = [op |-> "notify", message |-> message, type |-> type]
        /\ UNCHANGED jsErrors

showAlert(message, type) ==
    /\ Len(alertLog) < MaxAlerts
    /\ ShowAlertEffect(message, type)
    /\ UNCHANGED <<now, requestVars>>
    /\ NotifierFrame

\* The timeout callback of alert a, run against the attached alerts dom.
RemoveWhateverIsShown(a, dom) == [removed |-> dom, threw |-> dom = {}]

TimerCallback(a, dom) ==
    [removed |-> IF a \in dom THEN {a} ELSE {}, threw |-> FALSE]

AlertTimerFires(a) ==
    /\ a \in alertTimers
    /\ now >= AlertDeadline(a)
    /\ LET r == TimerCallback(a, alertDom)
       IN  /\ alertDom' = alertDom \ r.removed
           /\ alertLog' = [b \in AlertIds |->
                 IF b \in r.removed
                 THEN [alertLog[b] EXCEPT !.removedBy = "timer", !.removedAt = now,
                                          !.remover = a]
                 ELSE IF b = a /\ a \notin alertDom
                      THEN [alertLog[b] EXCEPT !.staleFiredAt = now]
                      ELSE alertLog[b]]
           /\ jsErrors' = IF r.threw THEN jsErrors + 1 ELSE jsErrors
    /\ alertTimers' = alertTimers \ {a}
    /\ alertEvent' = [op |-> "timer", message |-> <<>>, type |-> "undefined"]
    /\ UNCHANGED <<now, requestVars>>
    /\ NotifierFrame

\* The click listener of alert a; only an attached element can be clicked.
AlertClicked(a) ==
    /\ a \in alertDom
    /\ alertDom' = alertDom \ {a}
    /\ alertLog' = [alertLog EXCEPT ![a].removedBy = "click", ![a].removedAt = now]
    /\ alertEvent' = [op |-> "click", message |-> <<>>, type |-> "undefined"]
    /\ UNCHANGED <<alertTimers, jsErrors, now, requestVars>>
    /\ NotifierFrame

(***************************************************************************)
(* Fetch wrapper.  A string is a sequence of its pieces, so that a         *)
(* template literal is the concatenation of its parts.                     *)
(***************************************************************************)

MaxRequests == 2

RequestIds == 1..MaxRequests

Statuses == {200, 400, 500}

\* `${response.status}`
StatusString(status) ==
    CASE status = 200 -> "200" [] status = 400 -> "400" [] status = 500 -> "500"

\* response.statusText; an HTTP/2 response carries an empty one.
StatusText(status) ==
    CASE status = 200 -> <<"OK">> [] status = 400 -> <<"Bad Request">>
      [] status = 500 -> <<>>

ContentTypes == {"null", "application/json; charset=utf-8", "text/html"}

\* contentType && contentType.includes('application/json')
IsJson(contentType) == contentType \in {"application/json; charset=utf-8"}

NoValue == [t |-> "undefined", hasMessage |-> FALSE, message |-> <<>>, text |-> <<>>]

JsonValues ==
    {[t |-> "null", hasMessage |-> FALSE, message |-> <<>>, text |-> <<>>],
     [t |-> "array", hasMessage |-> FALSE, message |-> <<>>, text |-> <<>>],
     [t |-> "object", hasMessage |-> FALSE, message |-> <<>>, text |-> <<>>],
     [t |-> "object", hasMessage |-> TRUE, message |-> <<>>, text |-> <<>>],
     [t |-> "object", hasMessage |-> TRUE, message |-> <<"bad input">>, text |-> <<>>]}

TextValues ==
    {[t |-> "text", hasMessage |-> FALSE, message |-> <<>>, text |-> <<>>],
     [t |-> "text", hasMessage |-> FALSE, message |-> <<>>, text |-> <<"oops">>]}

TransportError == <<"Failed to fetch">>

\* response.json() on a body that is not JSON; response.text() on a broken stream.
DecodeErrors == {<<"Unexpected end of JSON input">>, <<"network error">>}

NullPropertyError == <<"Cannot read properties of null (reading 'message')">>

NoResponse == [status |-> 0, statusText |-> <<>>, contentType |-> "null"]

Responses ==
    {[status |-> s, statusText |-> StatusText(s), contentType |-> c] :
        s \in Statuses, c \in ContentTypes}

\* response.ok
OkBelow500(status) == status < 500

ResponseOk(status) == status \in 200..299

\* `HTTP ${response.status}: ${response.statusText}`
HttpMessage(response) ==
    <<"HTTP ", StatusString(response.status), ": ">> \o response.statusText

\* The message of the error line 99 raises: reading .message of null throws
\* before new Error is reached; an absent or empty message is falsy.
StatusErrorMessage(response, result) ==
    IF result.t = "null" THEN NullPropertyError
    ELSE IF result.hasMessage /\ result.message # <<>> THEN result.message
    ELSE HttpMessage(response)

RequestInit ==
    requests = [r \in RequestIds |->
                  [pc |-> "idle", response |-> NoResponse, fetched |-> "none",
                   decoded |-> "none", result |-> NoValue, outcome |-> "none",
                   value |-> NoValue, error |-> <<>>, alerts |-> <<>>]]

RequestFrame == UNCHANGED <<modalVars, now, formVars, fmtVars, debounceVars>>

\* catch (error) { showAlert(error.message, 'error'); throw error; }
Catch(r, req, message) ==
    /\ requests' = [requests EXCEPT ![r] =
          [req EXCEPT !.pc = "done", !.outcome = "rejected", !.error = message,
                      !.alerts = Append(@, [message |-> message, type |-> "error"])]]
    /\ ShowAlertEffect(message, "error")

makeRequest(r) ==
    /\ requests[r].pc = "idle"
    /\ requests' = [requests EXCEPT ![r].pc = "fetch"]
    /\ UNCHANGED notifierVars
    /\ RequestFrame

FetchResolves(r, response) ==
    /\ requests[r].pc = "fetch"
    /\ requests' = [requests EXCEPT ![r].pc = "body", ![r].response = response,
                                    ![r].fetched = "response"]
    /\ UNCHANGED notifierVars
    /\ RequestFrame

FetchRejects(r) ==
    /\ requests[r].pc = "fetch"
    /\ Catch(r, [requests[r] EXCEPT !.fetched = "failed"], TransportError)
    /\ RequestFrame

BodyValues(response) == IF IsJson(response.contentType) THEN JsonValues ELSE TextValues

BodyFails(r, message) ==
    /\ requests[r].pc = "body"
    /\ Catch(r, [requests[r] EXCEPT !.decoded = "failed"], message)
    /\ RequestFrame

BodyDecoded(r, result) ==
    /\ requests[r].pc = "body"
    /\ result \in BodyValues(requests[r].response)
    /\ LET req == [requests[r] EXCEPT !.decoded = "ok", !.result = result]
       IN  IF ~ResponseOk(req.response.status)
           THEN Catch(r, req, StatusErrorMessage(req.response, result))
           ELSE /\ requests' = [requests EXCEPT ![r] =
                      [req EXCEPT !.pc = "done", !.outcome = "resolved",
                                  !.value = result]]
                /\ UNCHANGED notifierVars
    /\ RequestFrame

RequestNext ==
    \/ \E r \in RequestIds : makeRequest(r)
    \/ \E r \in RequestIds, response \in Responses : FetchResolves(r, response)
    \/ \E r \in RequestIds : FetchRejects(r)
    \/ \E r \in RequestIds, m \in DecodeErrors : BodyFails(r, m)
    \/ \E r \in RequestIds, v \in JsonValues \cup TextValues : BodyDecoded(r, v)

(***************************************************************************)
(* Form validator.  A value is the sequence of its characters.             *)
(***************************************************************************)

NumFields == 2

FieldIds == 1..NumFields

Whitespace == {" ", "\t"}

FieldValues == {<<>>, <<" ", "\t">>, <<"a">>, <<"\t", "a", " ">>}

ErrorColor == "#de350b"

NormalColor == "#dfe1e6"

RECURSIVE TrimStart(_)
TrimStart(s) ==
    IF s # <<>> /\ Head(s) \in Whitespace THEN TrimStart(Tail(s)) ELSE s

RECURSIVE TrimEnd(_)
TrimEnd(s) ==
    IF s # <<>> /\ s[Len(s)] \in Whitespace
    THEN TrimEnd(SubSeq(s, 1, Len(s) - 1)) ELSE s

\* String.prototype.trim
Trim(s) == TrimEnd(TrimStart(s))

FormFrame ==
    UNCHANGED <<modalVars, notifierVars, now, requestVars, fmtVars, debounceVars>>

\* A form of NumFields fields; which are required and which carry class
\* form-control is the page's choice.  No inline border colour is set yet.
FormInit ==
    /\ fields \in [FieldIds -> [required : BOOLEAN, formControl : BOOLEAN,
                                value : {<<>>}, borderColor : {""}]]
    /\ formEvent = [op |-> "init", result |-> TRUE, before |-> fields]

\* The user edits a field.
SetValue(f, v) ==
    /\ fields[f].value # v
    /\ fields' = [fields EXCEPT ![f].value = v]
    /\ formEvent' = [op |-> "input", result |-> TRUE, before |-> fields']
    /\ FormFrame

\* formElement.querySelectorAll('[required]')
RequiredFields(form) == {f \in FieldIds : form[f].required}

\* !field.value.trim()
IsBlankWithoutTrim(field) == field.value = <<>>

IsBlank(field) == Trim(field.value) = <<>>

validateForm ==
    LET requiredFields == RequiredFields(fields)
    IN  /\ fields' = [f \in FieldIds |->
                        IF f \in requiredFields
                        THEN [fields[f] EXCEPT !.borderColor =
                                IF IsBlank(fields[f]) THEN ErrorColor ELSE NormalColor]
                        ELSE fields[f]]
        /\ formEvent' = [op |-> "validate",
                         result |-> \A f \in requiredFields : ~IsBlank(fields[f]),
                         before |-> fields]
        /\ FormFrame

\* formElement.querySelectorAll('.form-control')
FormControls(form) == {f \in FieldIds : form[f].formControl}

resetFormValidation ==
    /\ fields' = [f \in FieldIds |->
                    IF f \in FormControls(fields)
                    THEN [fields[f] EXCEPT !.borderColor = NormalColor]
                    ELSE fields[f]]
    /\ formEvent' = [op |-> "reset", result |-> TRUE, before |-> fields]
    /\ FormFrame

FormNext ==
    \/ \E f \in FieldIds, v \in FieldValues : SetValue(f, v)
    \/ validateForm
    \/ resetFormValidation

(***************************************************************************)
(* formatRelativeTime.  now - date is kept in whole seconds: for an        *)
(* integer number of milliseconds ms, floor(ms / (1000*60*60*24)) is       *)
(* floor(floor(ms / 1000) / (60*60*24)).  A label is its optional number   *)
(* and its text.                                                           *)
(***************************************************************************)

MaxDays == 800

SecondsPerDay == 60 * 60 * 24

\* How far into its day the timestamp lies.
DayOffsets == {0, 1, SecondsPerDay \div 2, SecondsPerDay - 1}

\* null, undefined and '' are the falsy inputs.
EmptyInputs == {"null", "undefined", ""}

Plain(text) == [hasNumber |-> FALSE, number |-> 0, text |-> text]

Numbered(n, text) == [hasNumber |-> TRUE, number |-> n, text |-> text]

NotFormatted == Plain("(not called)")

FmtFrame ==
    UNCHANGED <<modalVars, notifierVars, now, requestVars, formVars, debounceVars>>

FmtInit ==
    /\ fmtIn \in [kind : EmptyInputs, days : {0}, offset : {0}]
                 \cup [kind : {"date"}, days : 0..MaxDays, offset : DayOffsets]
    /\ fmtOut = NotFormatted

\* The chain of lines 146-152 on diffDays.
BucketWeekOffByOne(diffDays) ==
    IF diffDays = 0 THEN Plain("Today")
    ELSE IF diffDays = 1 THEN Plain("Yesterday")
    ELSE IF diffDays <= 7 THEN Numbered(diffDays, " days ago")
    ELSE IF diffDays < 30 THEN Numbered(diffDays \div 7, " weeks ago")
    ELSE IF diffDays < 365 THEN Numbered(diffDays \div 30, " months ago")
    ELSE Numbered(diffDays \div 365, " years ago")

Bucket(diffDays) ==
    IF diffDays = 0 THEN Plain("Today")
    ELSE IF diffDays = 1 THEN Plain("Yesterday")
    ELSE IF diffDays < 7 THEN Numbered(diffDays, " days ago")
    ELSE IF diffDays < 30 THEN Numbered(diffDays \div 7, " weeks ago")
    ELSE IF diffDays < 365 THEN Numbered(diffDays \div 30, " months ago")
    ELSE Numbered(diffDays \div 365, " years ago")

formatRelativeTime(dateString) ==
    IF dateString.kind \in EmptyInputs THEN Plain("Unknown")
    ELSE LET diffSeconds == dateString.days * SecondsPerDay + dateString.offset
             diffDays == diffSeconds \div SecondsPerDay
         IN  Bucket(diffDays)

CallFormatRelativeTime ==
    /\ fmtOut = NotFormatted
    /\ fmtOut' = formatRelativeTime(fmtIn)
    /\ UNCHANGED fmtIn
    /\ FmtFrame

FmtNext == CallFormatRelativeTime

(***************************************************************************)
(* debounce                                                                *)
(***************************************************************************)

MaxCalls == 4

DebounceArgs == {"x", "y"}

Waits == {TickMs, 2 * TickMs}

DebounceFrame ==
    UNCHANGED <<modalVars, notifierVars, requestVars, formVars, fmtVars>>

\* d = debounce(func, wait): timeout is undefined, nothing is scheduled.
DebounceInit ==
    /\ dWait \in Waits
    /\ dTimeout = 0
    /\ dTimers = {}
    /\ dCalls = <<>>
    /\ dRuns = <<>>

\* clearTimeout(id)
ClearNothing(timers, id) == timers

clearTimeout(timers, id) == {t \in timers : t.id # id}

\* Line 174: the call cancels the timer the previous call set.
CancelPrevious(timers, id) == clearTimeout(timers, id)

\* d(...args): the id of the new timer is the number of the call.
executedFunction(args) ==
    /\ Len(dCalls) < MaxCalls
    /\ LET id == Len(dCalls) + 1
       IN  /\ dTimers' = CancelPrevious(dTimers, dTimeout)
                           \cup {[id |-> id, args |-> args, deadline |-> now + dWait]}
           /\ dTimeout' = id
           /\ dCalls' = Append(dCalls,
                 [args |-> args, at |-> now,
                  pendingBefore |-> dTimers # {},
                  closeToPrevious |->
                      dCalls # <<>> /\ now - dCalls[Len(dCalls)].at < dWait])
    /\ UNCHANGED <<dWait, dRuns, now>>
    /\ DebounceFrame

\* The timer t fires: later() clears timeout and calls func(...args).
later(t) ==
    /\ t \in dTimers
    /\ now >= t.deadline
    /\ dTimers' = clearTimeout(dTimers \ {t}, dTimeout)
    /\ dRuns' = Append(dRuns, [args |-> t.args, at |-> now, call |-> t.id,
                               calls |-> Len(dCalls)])
    /\ UNCHANGED <<dWait, dTimeout, dCalls, now>>
    /\ DebounceFrame

(***************************************************************************)
(* The clock, and the two components that set timers                       *)
(***************************************************************************)

\* Time passes while no timer is due.
Tick ==
    /\ now < MaxTime
    /\ \A a \in alertTimers : now < AlertDeadline(a)
    /\ \A t \in dTimers : now < t.deadline
    /\ now' = now + TickMs
    /\ UNCHANGED <<modalVars, notifierVars, requestVars, formVars, fmtVars, debounceVars>>

NotifierNext ==
    \/ \E m \in Messages, t \in AlertTypes : showAlert(m, t)
    \/ \E a \in AlertIds : AlertTimerFires(a)
    \/ \E a \in AlertIds : AlertClicked(a)
    \/ Tick

DebounceNext ==
    \/ \E a \in DebounceArgs : executedFunction(a)
    \/ \E t \in dTimers : later(t)
    \/ Tick

(***************************************************************************)
(* Specifications.  A component that a specification does not exercise is  *)
(* parked in one of its initial states.                                    *)
(***************************************************************************)

FormParked ==
    /\ fields = [f \in FieldIds |-> [required |-> FALSE, formControl |-> FALSE,
                                     value |-> <<>>, borderColor |-> ""]]
    /\ formEvent = [op |-> "init", result |-> TRUE, before |-> fields]

FmtParked ==
    /\ fmtIn = [kind |-> "null", days |-> 0, offset |-> 0]
    /\ fmtOut = NotFormatted

DebounceParked ==
    /\ dWait = TickMs
    /\ dTimeout = 0
    /\ dTimers = {}
    /\ dCalls = <<>>
    /\ dRuns = <<>>

Init ==
    /\ ModalInit /\ NotifierInit /\ now = 0 /\ RequestInit
    /\ FormInit /\ FmtInit /\ DebounceInit

Next ==
    \/ ModalNext
    \/ NotifierNext
    \/ RequestNext
    \/ FormNext
    \/ FmtNext
    \/ DebounceNext

Spec == Init /\ [][Next]_vars

ModalSpecInit ==
    /\ ModalInit /\ NotifierInit /\ now = 0 /\ RequestInit
    /\ FormParked /\ FmtParked /\ DebounceParked

ModalSpec == ModalSpecInit /\ [][ModalNext]_vars

NotifierSpec == ModalSpecInit /\ [][NotifierNext]_vars

RequestSpec == ModalSpecInit /\ [][RequestNext]_vars

FormSpecInit ==
    /\ ModalInit /\ NotifierInit /\ now = 0 /\ RequestInit
    /\ FormInit /\ FmtParked /\ DebounceParked

FormSpec == FormSpecInit /\ [][FormNext]_vars

FmtSpecInit ==
    /\ ModalInit /\ NotifierInit /\ now = 0 /\ RequestInit
    /\ FormParked /\ FmtInit /\ DebounceParked

FmtSpec == FmtSpecInit /\ [][FmtNext]_vars

DebounceSpecInit ==
    /\ ModalInit /\ NotifierInit /\ now = 0 /\ RequestInit
    /\ FormParked /\ FmtParked /\ DebounceInit

DebounceSpec == DebounceSpecInit /\ [][DebounceNext]_vars

(***************************************************************************)
(* Properties                                                              *)
(***************************************************************************)

\* C1: page scroll is unlocked only when zero modals are visible: whenever
\* at least one modal is visible, body overflow is "hidden".
ScrollLockedWhileModalVisible ==
    OpenModals(display) # {} => overflow = "hidden"

\* C8: right after an Escape key press every modal that was visible is
\* hidden, no modal is visible, and the scroll-lock is released.
EscapeClosesAllModals ==
    modalEvent.op = "Escape" =>
        /\ \A e \in Modals : modalEvent.before[e] = "block" => display[e] = "none"
        /\ \A e \in Modals : display[e] # "block"
        /\ overflow = "auto"

EscapeClosedTwoModals ==
    /\ modalEvent.op = "Escape"
    /\ Cardinality({e \in Modals : modalEvent.before[e] = "block"}) >= 2
    /\ \A e \in Modals : display[e] # "block"
    /\ overflow = "auto"

\* C2: at most one notification element is attached at any time; right
\* after a notify call exactly one is attached, the one that call created,
\* and it shows the call's message and kind (success when omitted).
AtMostOneNotification ==
    /\ Cardinality(alertDom) <= 1
    /\ alertEvent.op = "notify" =>
          /\ alertLog # <<>>
          /\ alertDom = {Len(alertLog)}
          /\ alertLog[Len(alertLog)].message = alertEvent.message
          /\ alertLog[Len(alertLog)].type =
                (IF alertEvent.type = "undefined" THEN "success" ELSE alertEvent.type)

SecondNotifyReplacedFirst ==
    /\ alertEvent.op = "notify"
    /\ Len(alertLog) >= 2
    /\ alertLog[Len(alertLog) - 1].removedBy = "evict"
    /\ alertLog[Len(alertLog) - 1].message # alertLog[Len(alertLog)].message
    /\ alertDom = {Len(alertLog)}

\* C3: a notification is attached exactly until it is clicked, replaced or
\* timed out; a timeout removes only the notification that set it, and it
\* does so 4000ms after that notification's creation, never earlier and
\* never leaving it attached later; a click removes it no later than that;
\* no timer callback throws.
NotificationLifetime ==
    /\ jsErrors = 0
    /\ \A a \in AlertIds :
         LET e == alertLog[a]
         IN  /\ (a \in alertDom) <=> (e.removedBy = "none")
             /\ e.removedBy = "none" => now <= e.createdAt + 4000
             /\ e.removedBy = "timer" =>
                   e.remover = a /\ e.removedAt = e.createdAt + 4000
             /\ e.removedBy = "click" => e.removedAt <= e.createdAt + 4000

StaleTimerSparedLaterNotification ==
    \E a, b \in AlertIds :
        /\ alertLog[a].removedBy \in {"evict", "click"}
        /\ alertLog[a].staleFiredAt >= 0
        /\ alertLog[a].createdAt < alertLog[b].createdAt
        /\ alertLog[b].createdAt < alertLog[a].staleFiredAt
        /\ alertLog[b].removedBy = "timer"
        /\ alertLog[b].removedAt > alertLog[a].staleFiredAt

Failed(q) ==
    \/ q.fetched = "failed"
    \/ q.decoded = "failed"
    \/ q.fetched = "response" /\ q.response.status \notin 200..299

\* C4: a call that ends in failure (transport failure, decoding failure or
\* a status outside 200..299) has called the notifier exactly once, with
\* kind error and the failure's message, and rejects; a call that ends in
\* success has not called the notifier and returns the decoded payload.
FailureNotifiesOnceAndRejects ==
    /\ \A r \in RequestIds :
         LET q == requests[r]
         IN  /\ q.pc # "done" => q.alerts = <<>> /\ q.outcome = "none"
             /\ q.pc = "done" /\ Failed(q) =>
                   /\ q.outcome = "rejected"
                   /\ q.alerts = <<[message |-> q.error, type |-> "error"]>>
             /\ q.pc = "done" /\ ~Failed(q) =>
                   /\ q.outcome = "resolved"
                   /\ q.alerts = <<>>
                   /\ q.decoded = "ok" /\ q.value = q.result
    /\ Len(alertLog) = Cardinality({r \in RequestIds : requests[r].outcome = "rejected"})
    /\ \A a \in AlertIds :
         /\ alertLog[a].type = "error"
         /\ \E r \in RequestIds : requests[r].error = alertLog[a].message

OneRequestFailedOneSucceeded ==
    \E r1, r2 \in RequestIds :
        /\ requests[r1].outcome = "rejected"
        /\ requests[r1].decoded = "ok"
        /\ requests[r1].response.status = 400
        /\ Len(requests[r1].alerts) = 1
        /\ requests[r2].outcome = "resolved"
        /\ requests[r2].alerts = <<>>

\* C5: for a response with a non-success status and a decoded payload the
\* failure message is the payload's message field if the JSON payload has
\* one, and otherwise "HTTP {status}: {statusText}"; for a transport
\* failure it is the transport error's message.
FailureMessageFromPayloadOrStatus ==
    \A r \in RequestIds :
        LET q == requests[r]
        IN  /\ (q.pc = "done" /\ q.decoded = "ok" /\ q.response.status \notin 200..299) =>
                  q.error = (IF q.result.t = "object" /\ q.result.hasMessage
                             THEN q.result.message
                             ELSE <<"HTTP ", StatusString(q.response.status), ": ">>
                                      \o q.response.statusText)
            /\ (q.pc = "done" /\ q.fetched = "failed") => q.error = <<"Failed to fetch">>

AllWhitespace(value) == \A i \in 1..Len(value) : value[i] \in {" ", "\t"}

\* C6: validate returns true iff no required field is blank; afterwards a
\* required field carries the error colour iff it is blank, a non-required
\* field keeps its border colour, and no field's value changes.
ValidateMarksExactlyBlankRequired ==
    formEvent.op = "validate" =>
        /\ formEvent.result =
              (\A f \in FieldIds : fields[f].required => ~AllWhitespace(fields[f].value))
        /\ \A f \in FieldIds :
              /\ fields[f].required =>
                    ((fields[f].borderColor = "#de350b") <=> AllWhitespace(fields[f].value))
              /\ ~fields[f].required =>
                    fields[f].borderColor = formEvent.before[f].borderColor
              /\ fields[f].value = formEvent.before[f].value
              /\ fields[f].required = formEvent.before[f].required
              /\ fields[f].formControl = formEvent.before[f].formControl

ValidateClearedOneMarkedAnother ==
    /\ formEvent.op = "validate"
    /\ ~formEvent.result
    /\ \E f, g \in FieldIds :
          /\ fields[f].required /\ fields[g].required
          /\ formEvent.before[f].borderColor = "#de350b"
          /\ fields[f].borderColor = "#dfe1e6"
          /\ fields[g].value # <<>>
          /\ fields[g].borderColor = "#de350b"

\* C7: right after resetValidationStyles no field of the form carries the
\* error colour.
ResetClearsEveryField ==
    formEvent.op = "reset" => \A f \in FieldIds : fields[f].borderColor # "#de350b"

\* The k with d * k <= n < d * (k + 1).
Floor(n, d) == CHOOSE k \in 0..n : d * k <= n /\ n < d * (k + 1)

\* C9: the label of a timestamp N whole days before now is Today for 0,
\* Yesterday for 1, N days ago for 2..6, floor(N/7) weeks ago for 7..29,
\* floor(N/30) months ago for 30..364, floor(N/365) years ago from 365 on;
\* the label of an empty input is Unknown.
RelativeTimeBuckets ==
    fmtOut # NotFormatted =>
        LET N == fmtIn.days
        IN  /\ fmtIn.kind \in {"null", "undefined", ""} => fmtOut = Plain("Unknown")
            /\ fmtIn.kind = "date" =>
                  /\ N = 0 => fmtOut = Plain("Today")
                  /\ N = 1 => fmtOut = Plain("Yesterday")
                  /\ N \in 2..6 => fmtOut = Numbered(N, " days ago")
                  /\ N \in 7..29 => fmtOut = Numbered(Floor(N, 7), " weeks ago")
                  /\ N \in 30..364 => fmtOut = Numbered(Floor(N, 30), " months ago")
                  /\ N >= 365 => fmtOut = Numbered(Floor(N, 365), " years ago")
                  /\ N = 3 => fmtOut = Numbered(3, " days ago")
                  /\ N = 10 => fmtOut = Numbered(1, " weeks ago")
                  /\ N = 40 => fmtOut = Numbered(1, " months ago")
                  /\ N = 400 => fmtOut = Numbered(1, " years ago")

FourHundredDaysIsOneYear ==
    /\ fmtIn.kind = "date" /\ fmtIn.days = 400 /\ fmtIn.offset > 0
    /\ fmtOut = Numbered(1, " years ago")

\* The calls that open a burst, and the last call of the k-th burst.
LastOfBurst(starts, k) ==
    CHOOSE i \in 1..Len(dCalls) :
        /\ Cardinality({s \in starts : s <= i}) = k
        /\ \A j \in 1..Len(dCalls) : Cardinality({s \in starts : s <= j}) = k => j <= i

OneRunPerBurst(starts) ==
    /\ Len(dRuns) = Cardinality(starts) - (IF dTimers # {} THEN 1 ELSE 0)
    /\ \A k \in 1..Len(dRuns) : dRuns[k].call = LastOfBurst(starts, k)

TimerAndRunDiscipline ==
    /\ Cardinality(dTimers) <= 1
    /\ \A k \in 1..Len(dRuns) :
          LET run == dRuns[k]
          IN  /\ run.call = run.calls
              /\ run.args = dCalls[run.call].args
              /\ run.at - dCalls[run.call].at >= dWait

\* C10 as stated: at most one timer is pending; func runs only once wait
\* has elapsed since the most recent call; with a burst being calls spaced
\* less than wait apart, each burst gives exactly one run of func, with the
\* arguments of the burst's last call.
OneRunPerBurstByTime ==
    /\ TimerAndRunDiscipline
    /\ OneRunPerBurst({i \in 1..Len(dCalls) : ~dCalls[i].closeToPrevious})

\* C10 as amended: the same, with a burst being calls each made while the
\* timer set by the previous call is still pending.
OneRunPerBurstByPendingTimer ==
    /\ TimerAndRunDiscipline
    /\ OneRunPerBurst({i \in 1..Len(dCalls) : ~dCalls[i].pendingBefore})

BurstRanWithLastArguments ==
    \E k \in 1..Len(dRuns) :
        LET c == dRuns[k].call
        IN  /\ c >= 2
            /\ dCalls[c].pendingBefore
            /\ dCalls[c - 1].args # dCalls[c].args
            /\ dRuns[k].args = dCalls[c].args
            /\ Len(dRuns) >= 2

====
